---- MODULE Spec2Model ----
(***************************************************************************)
(* XpBot (src/xpbot.py): message-gated XP accrual with a cooldown, the     *)
(* admin setxp command, and the level / badge resolver.  Every handler is  *)
(* an asyncio task; each `await` of a database call or of a reply is a     *)
(* point where other handlers run, so a handler is a sequence of steps.    *)
(* Text is a sequence of one-character strings; time is in whole seconds.  *)
(***************************************************************************)
EXTENDS Integers, Sequences, FiniteSets, TLC

\* ----- CONFIG (src/xpbot.py:9-34) -----
XP_PER_MESSAGE == 5
XP_PER_LEVEL == 100
COOLDOWN == 5

DefaultDomain == <<":", "j", "5", ".", "c", "h", "a", "t">>

Mxid(local) == <<"@">> \o local \o DefaultDomain

ADMINS == {Mxid(<<"a", "d", "m", "i", "n">>)}

BADGES == {[milestone |-> 1, badge |-> "Bronze"],
           [milestone |-> 5, badge |-> "Silver"],
           [milestone |-> 10, badge |-> "Gold"],
           [milestone |-> 20, badge |-> "Platinum"]}

\* variant: only the first account made it into the set
IGNORE_USERS_short == {Mxid(<<"t", "i", "c", "k", "e", "t", "b", "o", "t">>)}

IGNORE_USERS == {Mxid(<<"t", "i", "c", "k", "e", "t", "b", "o", "t">>),
                 Mxid(<<"k", "a", "r", "m", "a">>),
                 Mxid(<<"m", "e", "e", "6">>),
                 Mxid(<<"m", "e", "e", "6", "b", "o", "t">>),
                 Mxid(<<"a", "n", "t", "i", "t", "h", "r", "e", "a", "d">>),
                 Mxid(<<"p", "o", "l", "l">>),
                 Mxid(<<"h", "e", "l", "p", "d", "e", "s", "k">>),
                 Mxid(<<"m", "e", "e", "6", "x", "p">>)}

\* self.client.mxid: the bot's own account
ClientMxid == Mxid(<<"x", "p">>)

\* ----- bounds of the model -----
MaxClock == 10

\* the handlers in flight at a time; a task takes a new event when its handler is over
Tasks == {1, 2}

\* the wall clock reads at least COOLDOWN seconds past the epoch
StartClock == COOLDOWN

\* the instants at which a step can happen: the start, one second short of a
\* cooldown later, and every second from a full cooldown later
Instants == {StartClock, StartClock + COOLDOWN - 1} \cup (StartClock + COOLDOWN)..MaxClock

\* senders of room messages: a user, an ignored account, the bot itself
Bob == Mxid(<<"b">>)
MsgSenders == {Bob, Mxid(<<"k", "a", "r", "m", "a">>), ClientMxid}

\* senders of the setxp command: the admin and a user
CmdSenders == ADMINS \cup {Bob}

\* the `user` argument of setxp, as typed
UserArgs == {<<"b">>, <<"@", "b">>}

\* the `xp` argument of setxp, as typed
XpArgs == {<<"9", "8">>, <<"-", "5">>, <<"a", "b", "c">>}

\* ----- text helpers -----
\* str.isspace() on the characters the inputs use
IsSpace(c) == c \in {" ", "\t"}

RECURSIVE LStrip(_)
LStrip(s) == IF s # <<>> /\ IsSpace(Head(s)) THEN LStrip(Tail(s)) ELSE s

RECURSIVE RStrip(_)
RStrip(s) ==
    IF s # <<>> /\ IsSpace(s[Len(s)]) THEN RStrip(SubSeq(s, 1, Len(s) - 1)) ELSE s

\* str.strip()
Strip(s) == RStrip(LStrip(s))

Contains(s, c) == \E i \in 1..Len(s) : s[i] = c

StartsWith(s, c) == s # <<>> /\ s[1] = c

\* normalize_user with the ':' test of the sigil-less branch left out
normalize_user_always_qualify(user) ==
    IF user = <<>> THEN <<>>
    ELSE LET u == Strip(user) IN
         IF StartsWith(u, "@") /\ Contains(u, ":") THEN u
         ELSE IF StartsWith(u, "@") THEN <<"@">> \o Tail(u) \o DefaultDomain
         ELSE <<"@">> \o u \o DefaultDomain

\* XpBot.normalize_user
normalize_user(user) ==
    IF user = <<>> THEN <<>>
    ELSE LET u == Strip(user) IN
         IF StartsWith(u, "@") /\ Contains(u, ":") THEN u
         ELSE IF StartsWith(u, "@") THEN <<"@">> \o Tail(u) \o DefaultDomain
         ELSE IF ~Contains(u, ":") THEN <<"@">> \o u \o DefaultDomain
         ELSE u

\* ----- int(xp) -----
Digits == <<"0", "1", "2", "3", "4", "5", "6", "7", "8", "9">>

IsDigit(c) == \E i \in 1..10 : Digits[i] = c

DigitVal(c) == (CHOOSE i \in 1..10 : Digits[i] = c) - 1

\* digits, single underscores allowed between two digits
DigitsOk(s) ==
    /\ s # <<>>
    /\ IsDigit(s[1])
    /\ IsDigit(s[Len(s)])
    /\ \A i \in 1..Len(s) : IsDigit(s[i]) \/ s[i] = "_"
    /\ \A i \in 1..(Len(s) - 1) : ~(s[i] = "_" /\ s[i + 1] = "_")

RECURSIVE DigitsVal(_, _)
DigitsVal(s, acc) ==
    IF s = <<>> THEN acc
    ELSE IF Head(s) = "_" THEN DigitsVal(Tail(s), acc)
    ELSE DigitsVal(Tail(s), 10 * acc + DigitVal(Head(s)))

\* variant: text that is no number is taken as 0
ParseInt_lenient(s) == [ok |-> TRUE, val |-> 0]

\* int(xp): ok = FALSE stands for ValueError
ParseInt(s) ==
    LET u == Strip(s)
        signed == u # <<>> /\ u[1] \in {"+", "-"}
        body == IF signed THEN Tail(u) ELSE u
        mag == DigitsVal(body, 0)
    IN IF DigitsOk(body)
       THEN [ok |-> TRUE, val |-> IF signed /\ u[1] = "-" THEN 0 - mag ELSE mag]
       ELSE [ok |-> FALSE, val |-> 0]

\* ----- level / badge resolver -----
\* XpBot.calc_level: floor division
calc_level(xp) == xp \div XP_PER_LEVEL

\* variant: the milestones are walked from the lowest up
get_badge_lowest(level) ==
    LET reached == {b \in BADGES : level >= b.milestone} IN
    IF reached = {} THEN ""
    ELSE (CHOOSE b \in reached : \A o \in reached : o.milestone >= b.milestone).badge

\* XpBot.get_badge: first milestone, from the highest down, that level reaches
get_badge(level) ==
    LET reached == {b \in BADGES : level >= b.milestone} IN
    IF reached = {} THEN ""
    ELSE (CHOOSE b \in reached : \A o \in reached : o.milestone <= b.milestone).badge

\* variant: the allow-list is not consulted
is_admin_or_mod_open(sender) == sender # <<>>

\* XpBot.is_admin_or_mod
is_admin_or_mod(sender) == sender \in ADMINS

\* ----- the xp_users table -----
NoRow == [present |-> FALSE, xp |-> 0, last_msg |-> 0]

\* variant: the SELECT has lost its WHERE clause, fetchone() gives the first row
get_user_row_first(table, mxid) ==
    IF DOMAIN table = {} THEN NoRow
    ELSE LET k == CHOOSE k \in DOMAIN table : TRUE IN
         [present |-> TRUE, xp |-> table[k].xp, last_msg |-> table[k].last_msg]

\* XpBot.get_user_row: fetchone() of the SELECT, None when there is no row
get_user_row(table, mxid) ==
    IF mxid \in DOMAIN table
    THEN [present |-> TRUE, xp |-> table[mxid].xp, last_msg |-> table[mxid].last_msg]
    ELSE NoRow

\* variant: the statement replaces the table's content by the one row
upsert_user_replace(table, mxid, xp, last_msg) ==
    mxid :> [xp |-> xp, last_msg |-> last_msg]

\* XpBot.upsert_user: INSERT ... ON CONFLICT(user_id) DO UPDATE
upsert_user(table, mxid, xp, last_msg) ==
    (mxid :> [xp |-> xp, last_msg |-> last_msg]) @@ table

\* variant: a user never seen starts with one message's worth
RowXp_seeded(row) == IF row.present THEN row.xp ELSE XP_PER_MESSAGE

\* row[1] if row else 0
RowXp(row) == IF row.present THEN row.xp ELSE 0

\* row[2] if row else 0.0
RowLastMsg(row) == IF row.present THEN row.last_msg ELSE 0

\* variant: a window one second short
InCooldown_short(now, last_msg) == now - last_msg < COOLDOWN - 1

\* variant: the boundary second still counts as inside the window
InCooldown_inclusive(now, last_msg) == now - last_msg <= COOLDOWN

\* on_message: now - (last_msg or 0) < COOLDOWN
InCooldown(now, last_msg) == now - last_msg < COOLDOWN

\* on_message: new_xp = xp_now + XP_PER_MESSAGE
NewXp(xp_now) == xp_now + XP_PER_MESSAGE

\* variant: announces when the level is merely not lower
LeveledUp_or_same(old_xp, new_xp) == calc_level(new_xp) >= calc_level(old_xp)

\* new_level > old_level
LeveledUp(old_xp, new_xp) == calc_level(new_xp) > calc_level(old_xp)

\* variant: last_msg left to upsert_user's default
SetxpLastMsg_reset(row) == 0

\* cmd_setxp: last_msg = row[2] if row else 0, handed to upsert_user
SetxpLastMsg(row) == RowLastMsg(row)

\* ----- replies -----
LevelUpReply(mxid, level) ==
    [type |-> "levelup", mxid |-> mxid, level |-> level, badge |-> get_badge(level)]

DeniedReply == [type |-> "denied", mxid |-> <<>>, level |-> 0, badge |-> ""]

BadNumberReply == [type |-> "badnumber", mxid |-> <<>>, level |-> 0, badge |-> ""]

XpSetReply(mxid, level) ==
    [type |-> "xpset", mxid |-> mxid, level |-> level, badge |-> get_badge(level)]

\* ----- state -----
VARIABLES
    db,      \* xp_users: user_id -> (xp, last_msg)
    clock,   \* time.time()
    task     \* per task: the handler it runs, its local variables, what it replied

vars == <<db, clock, task>>

IdleTask ==
    [pc |-> "idle", kind |-> "none", sender |-> <<>>, has_body |-> TRUE,
     raw |-> <<>>,
     xp_arg |-> <<>>, mxid |-> <<>>,
     row |-> NoRow, now |-> 0, xp_val |-> 0, reads |-> 0, writes |-> 0,
     outcome |-> "none", replies |-> <<>>]

Init ==
    /\ db = <<>>
    /\ clock = StartClock
    /\ task = [t \in Tasks |-> IdleTask]

\* a database call may raise instead of completing (the executor's exception
\* surfaces at the await)
StorageFails == TRUE

\* a task takes the next event once its handler has returned
Free(t) == task[t].pc \in {"idle", "done"}

\* variant: an exception of the database is caught and the handler ends as if
\* it had gone through
Finish_swallow(rec, outcome, replies) ==
    [rec EXCEPT !.pc = "done", !.row = NoRow,
                !.outcome = IF outcome = "failed" THEN "set" ELSE outcome,
                !.replies = IF outcome = "failed"
                            THEN <<XpSetReply(rec.mxid, calc_level(rec.xp_val))>>
                            ELSE replies]

\* the handler returns (or raises): the row it held is dropped, what it did stays
Finish(rec, outcome, replies) ==
    [rec EXCEPT !.pc = "done", !.row = NoRow, !.outcome = outcome, !.replies = replies]

\* time passes between two steps
Tick(later) ==
    /\ later > clock
    /\ clock' = later
    /\ UNCHANGED <<db, task>>

\* on_message up to the first await: the guards, then get_user_row
OnMessage(t, sender, has_body) ==
    /\ Free(t)
    /\ LET new == [IdleTask EXCEPT !.kind = "message", !.sender = sender,
                                   !.has_body = has_body] IN
       IF ~has_body \/ sender = ClientMxid \/ sender \in IGNORE_USERS
       THEN task' = [task EXCEPT ![t] = Finish(new, "ignored", <<>>)]
       ELSE LET mxid == normalize_user(sender) IN
            \/ task' = [task EXCEPT ![t] =
                   [new EXCEPT !.pc = "msg_check", !.mxid = mxid, !.reads = 1,
                               !.row = get_user_row(db, mxid)]]
            \/ StorageFails /\ task' = [task EXCEPT ![t] =
                   Finish([new EXCEPT !.mxid = mxid, !.reads = 1], "failed", <<>>)]
    /\ UNCHANGED <<db, clock>>

\* on_message after the read: now = time.time(), the cooldown check
MsgCheck(t) ==
    /\ task[t].pc = "msg_check"
    /\ IF InCooldown(clock, RowLastMsg(task[t].row))
       THEN task' = [task EXCEPT ![t] = Finish(@, "cooldown", <<>>)]
       ELSE task' = [task EXCEPT ![t] = [@ EXCEPT !.pc = "msg_write", !.now = clock]]
    /\ UNCHANGED <<db, clock>>

\* on_message: upsert_user(mxid, new_xp, now), then the level-up announcement
MsgWrite(t) ==
    /\ task[t].pc = "msg_write"
    /\ LET xp_now == RowXp(task[t].row)
           new_xp == NewXp(xp_now)
       IN \/ /\ db' = upsert_user(db, task[t].mxid, new_xp, task[t].now)
             /\ task' = [task EXCEPT ![t] =
                    Finish([@ EXCEPT !.writes = 1], "awarded",
                           IF LeveledUp(xp_now, new_xp)
                           THEN <<LevelUpReply(task[t].mxid, calc_level(new_xp))>>
                           ELSE <<>>)]
          \/ /\ StorageFails
             /\ db' = db
             /\ task' = [task EXCEPT ![t] = Finish(@, "failed", <<>>)]
    /\ UNCHANGED clock

\* cmd_setxp up to the first await of the database
CmdSetxp(t, sender, user, xp) ==
    /\ Free(t)
    /\ LET new == [IdleTask EXCEPT !.kind = "setxp", !.sender = sender, !.xp_arg = xp]
           target == normalize_user(user)
           parsed == ParseInt(xp)
       IN IF ~is_admin_or_mod(sender)
          THEN task' = [task EXCEPT ![t] = Finish(new, "unauthorized", <<DeniedReply>>)]
          ELSE IF ~parsed.ok
          THEN task' = [task EXCEPT ![t] =
                   Finish([new EXCEPT !.mxid = target], "invalid", <<BadNumberReply>>)]
          ELSE \/ task' = [task EXCEPT ![t] =
                      [new EXCEPT !.pc = "setxp_write", !.mxid = target, !.reads = 1,
                                  !.xp_val = parsed.val, !.row = get_user_row(db, target)]]
               \/ StorageFails /\ task' = [task EXCEPT ![t] =
                      Finish([new EXCEPT !.mxid = target, !.reads = 1], "failed", <<>>)]
    /\ UNCHANGED <<db, clock>>

\* cmd_setxp: upsert_user(target, xp_val, last_msg), then the confirmation and
\* the level-up announcement
SetxpWrite(t) ==
    /\ task[t].pc = "setxp_write"
    /\ LET xp_val == task[t].xp_val
           new_level == calc_level(xp_val)
       IN \/ /\ db' = upsert_user(db, task[t].mxid, xp_val, SetxpLastMsg(task[t].row))
             /\ task' = [task EXCEPT ![t] =
                    Finish([@ EXCEPT !.writes = 1], "set",
                           <<XpSetReply(task[t].mxid, new_level)>> \o
                           (IF LeveledUp(RowXp(task[t].row), xp_val)
                            THEN <<LevelUpReply(task[t].mxid, new_level)>>
                            ELSE <<>>))]
          \/ /\ StorageFails
             /\ db' = db
             /\ task' = [task EXCEPT ![t] = Finish(@, "failed", <<>>)]
    /\ UNCHANGED clock

Next ==
    \/ \E later \in Instants : Tick(later)
    \/ \E t \in Tasks, s \in MsgSenders, b \in BOOLEAN : OnMessage(t, s, b)
    \/ \E t \in Tasks : MsgCheck(t)
    \/ \E t \in Tasks : MsgWrite(t)
    \/ \E t \in Tasks, s \in CmdSenders, u \in UserArgs, x \in XpArgs : CmdSetxp(t, s, u, x)
    \/ \E t \in Tasks : SetxpWrite(t)

Spec == Init /\ [][Next]_vars

TypeOK ==
    /\ clock \in Instants
    /\ \A t \in Tasks : task[t].pc \in {"idle", "done", "msg_check", "msg_write", "setxp_write"}

\* ----- properties -----
\* the record stored for a key, absent counted as (0, 0)
Stored(table, mxid) ==
    IF mxid \in DOMAIN table THEN table[mxid] ELSE [xp |-> 0, last_msg |-> 0]

\* task t takes a step
Steps(t) == task'[t] # task[t]

\* task t performs its upsert in this step
Writes(t) == Steps(t) /\ task[t].pc \in {"msg_write", "setxp_write"} /\ task'[t].writes = 1

Awarded(t) == task[t].kind = "message" /\ task[t].outcome = "awarded"

Abs(n) == IF n < 0 THEN 0 - n ELSE n

\* C1: two messages of one account whose timestamps are less than COOLDOWN
\* seconds apart are never both accepted.
C1_OneAwardPerWindow ==
    \A t1, t2 \in Tasks :
        (t1 # t2 /\ Awarded(t1) /\ Awarded(t2) /\ task[t1].mxid = task[t2].mxid)
            => Abs(task[t1].now - task[t2].now) >= COOLDOWN

\* C2: when an award or a setxp writes a key's record, the record stored at that
\* moment is still the one the handler read: no write to the key came in between.
C2_ReadThenWriteAtomic ==
    [][\A t \in Tasks : Writes(t) => get_user_row(db, task[t].mxid) = task[t].row]_vars

\* C3: an award whose now - last_award_at is below COOLDOWN (last_award_at as
\* fetched, 0 when absent) ends as a silent rejection: no record changes and
\* nothing is replied.
C3_CooldownRejects ==
    [][\A t \in Tasks :
          (Steps(t) /\ task[t].pc = "msg_check"
                    /\ clock - (IF task[t].row.present THEN task[t].row.last_msg ELSE 0)
                           < COOLDOWN)
              => /\ task'[t].pc = "done"
                 /\ task'[t].outcome = "cooldown"
                 /\ task'[t].replies = <<>>
                 /\ task'[t].writes = 0
                 /\ db' = db]_vars

\* C3 witness: every task has just had an award rejected inside the window of a
\* stored record.
C3_Witness ==
    /\ \A t \in Tasks : task[t].kind = "message" /\ task[t].outcome = "cooldown"
    /\ Bob \in DOMAIN db
    /\ clock - db[Bob].last_msg < COOLDOWN

\* C4: an award whose now - last_award_at is COOLDOWN or more (boundary included)
\* is accepted, and its write makes the record exactly (xp + XP_PER_MESSAGE, now),
\* xp and last_award_at as fetched, both 0 when absent.
C4_AcceptedAwardStores ==
    [][\A t \in Tasks :
          /\ (Steps(t) /\ task[t].pc = "msg_check"
                       /\ clock - (IF task[t].row.present THEN task[t].row.last_msg ELSE 0)
                              >= COOLDOWN)
                 => /\ task'[t].pc = "msg_write"
                    /\ task'[t].now = clock
                    /\ task'[t].row = task[t].row
          /\ (Steps(t) /\ task[t].pc = "msg_write")
                 => \/ /\ task'[t].outcome = "awarded"
                       /\ db' = (task[t].mxid :>
                                    [xp |-> (IF task[t].row.present THEN task[t].row.xp ELSE 0)
                                                + XP_PER_MESSAGE,
                                     last_msg |-> task[t].now]) @@ db
                    \/ /\ task'[t].outcome = "failed"
                       /\ db' = db]_vars

\* C4 witness: an award exactly COOLDOWN seconds after the previous one was
\* accepted and stored.
C4_Witness ==
    \E t \in Tasks :
        /\ Awarded(t)
        /\ task[t].now = StartClock + COOLDOWN
        /\ Bob \in DOMAIN db
        /\ db[Bob] = [xp |-> 2 * XP_PER_MESSAGE, last_msg |-> StartClock + COOLDOWN]

\* the label of the highest milestone at or below level
BadgeAt(level) ==
    IF level >= 20 THEN "Platinum"
    ELSE IF level >= 10 THEN "Gold"
    ELSE IF level >= 5 THEN "Silver"
    ELSE IF level >= 1 THEN "Bronze"
    ELSE ""

IsLevelUp(r) == r.type = "levelup"

LevelUps(replies) == SelectSeq(replies, IsLevelUp)

\* C5: an accepted award and an executed setxp announce a level-up exactly when
\* the level of the new xp exceeds the level of the xp read before the write,
\* and the announcement carries the new level and its badge.
C5_LevelUpIff ==
    [][\A t \in Tasks :
          Writes(t) =>
              LET old_xp == IF task[t].row.present THEN task[t].row.xp ELSE 0
                  new_xp == IF task[t].kind = "message"
                            THEN old_xp + XP_PER_MESSAGE
                            ELSE task[t].xp_val
                  new_level == new_xp \div XP_PER_LEVEL
              IN LevelUps(task'[t].replies) =
                     IF new_level > old_xp \div XP_PER_LEVEL
                     THEN <<[type |-> "levelup", mxid |-> task[t].mxid,
                             level |-> new_level, badge |-> BadgeAt(new_level)]>>
                     ELSE <<>>]_vars

\* C5 witness: an award took a user from below 100 xp to level 1, and a setxp
\* announced a level-up as well.
C5_Witness ==
    \E t1, t2 \in Tasks :
        /\ Awarded(t1)
        /\ task[t1].replies = <<[type |-> "levelup", mxid |-> Bob, level |-> 1,
                                 badge |-> "Bronze"]>>
        /\ task[t2].kind = "setxp"
        /\ LevelUps(task[t2].replies) # <<>>

\* task t starts handling a setxp command in this step
StartsSetxp(t) == Steps(t) /\ Free(t) /\ task'[t].kind = "setxp"

\* C6: setxp from a caller outside the admin allow-list is answered with the
\* denial, reads and writes no record, and leaves every record unchanged.
C6_UnauthorizedSetxp ==
    [][\A t \in Tasks :
          (StartsSetxp(t) /\ task'[t].sender \notin ADMINS)
              => /\ task'[t].pc = "done"
                 /\ task'[t].outcome = "unauthorized"
                 /\ task'[t].replies = <<DeniedReply>>
                 /\ task'[t].reads = 0
                 /\ task'[t].writes = 0
                 /\ db' = db]_vars

\* C6 witness: a non-admin's setxp was denied while the target has a record.
C6_Witness ==
    \E t \in Tasks :
        /\ task[t].kind = "setxp"
        /\ task[t].sender = Bob
        /\ task[t].outcome = "unauthorized"
        /\ Bob \in DOMAIN db

\* s is an integer numeral: optional blanks, an optional sign, digits with
\* single underscores between them, optional blanks
IsIntLiteral(s) ==
    \E i \in 1..Len(s), j \in 1..Len(s) :
        /\ i <= j
        /\ \A k \in 1..(i - 1) : s[k] = " "
        /\ \A k \in (j + 1)..Len(s) : s[k] = " "
        /\ \E d \in i..j :
              /\ d = i \/ (d = i + 1 /\ s[i] \in {"+", "-"})
              /\ \A k \in d..j :
                    \/ IsDigit(s[k])
                    \/ (s[k] = "_" /\ k > d /\ k < j /\ IsDigit(s[k - 1]) /\ IsDigit(s[k + 1]))

\* C7: setxp from an admin whose xp argument is no integer numeral is answered
\* with the bad-number reply (not the denial), before any record is read or
\* written, and leaves every record unchanged.
C7_InvalidXpArgument ==
    [][\A t \in Tasks :
          (StartsSetxp(t) /\ task'[t].sender \in ADMINS /\ ~IsIntLiteral(task'[t].xp_arg))
              => /\ task'[t].pc = "done"
                 /\ task'[t].outcome = "invalid"
                 /\ task'[t].replies = <<BadNumberReply>>
                 /\ BadNumberReply # DeniedReply
                 /\ task'[t].reads = 0
                 /\ task'[t].writes = 0
                 /\ db' = db]_vars

\* C7 witness: an admin's setxp with the argument abc was refused while the
\* target has a record.
C7_Witness ==
    \E t \in Tasks :
        /\ task[t].kind = "setxp"
        /\ task[t].sender \in ADMINS
        /\ task[t].xp_arg = <<"a", "b", "c">>
        /\ task[t].outcome = "invalid"
        /\ Bob \in DOMAIN db

\* C8: setxp from an admin with an integer argument goes to its write whatever
\* the target's cooldown state, and the write stores that xp with the
\* last_award_at the handler fetched (0 when absent).
C8_SetxpStores ==
    [][\A t \in Tasks :
          /\ (StartsSetxp(t) /\ task'[t].sender \in ADMINS /\ IsIntLiteral(task'[t].xp_arg))
                 => \/ /\ task'[t].pc = "setxp_write"
                       /\ task'[t].row = get_user_row(db, task'[t].mxid)
                    \/ task'[t].outcome = "failed"
          /\ (Steps(t) /\ task[t].pc = "setxp_write")
                 => \/ /\ task'[t].outcome = "set"
                       /\ db' = (task[t].mxid :>
                                    [xp |-> task[t].xp_val,
                                     last_msg |-> IF task[t].row.present
                                                  THEN task[t].row.last_msg ELSE 0]) @@ db
                    \/ /\ task'[t].outcome = "failed"
                       /\ db' = db]_vars

\* C8 witness: a setxp went through for a target inside its cooldown window and
\* the window is still there.
C8_Witness ==
    \E t \in Tasks :
        /\ task[t].kind = "setxp"
        /\ task[t].outcome = "set"
        /\ Bob \in DOMAIN db
        /\ db[Bob].xp = task[t].xp_val
        /\ db[Bob].last_msg > 0
        /\ clock - db[Bob].last_msg < COOLDOWN

\* C9: every stored record has xp >= 0.
C9_XpNonNegative == \A k \in DOMAIN db : db[k].xp >= 0

\* C10: the write of an award never lowers the stored xp of its key.
C10_AwardNeverLowersXp ==
    [][\A t \in Tasks :
          (Writes(t) /\ task[t].kind = "message")
              => db'[task[t].mxid].xp >= Stored(db, task[t].mxid).xp]_vars

\* ----- storage failure, last_msg, ignored messages -----
\* task t leaves its first step with the read done and nothing more
ReadFailed(t) ==
    /\ Steps(t) /\ Free(t)
    /\ task'[t].kind \in {"message", "setxp"}
    /\ task'[t].pc = "done"
    /\ task'[t].reads = 1

\* task t leaves its write step without having written
WriteFailed(t) ==
    /\ Steps(t)
    /\ task[t].pc \in {"msg_write", "setxp_write"}
    /\ task'[t].writes = 0

\* C18: when the read or the write of an award or a setxp fails, the handler
\* ends there as failed (no retry), no record changes, and neither a level-up
\* nor a confirmation is replied.
C18_StorageFailureSurfaces ==
    [][\A t \in Tasks :
          (ReadFailed(t) \/ WriteFailed(t))
              => /\ task'[t].pc = "done"
                 /\ task'[t].outcome = "failed"
                 /\ task'[t].replies = <<>>
                 /\ task'[t].writes = 0
                 /\ task'[t].reads = 1
                 /\ db' = db]_vars

\* C18 witness: an award failed at its write after passing the cooldown check,
\* and a setxp failed, while the target has a record.
C18_Witness ==
    \E t1, t2 \in Tasks :
        /\ task[t1].kind = "message" /\ task[t1].outcome = "failed" /\ task[t1].now > 0
        /\ task[t2].kind = "setxp" /\ task[t2].outcome = "failed"
        /\ Bob \in DOMAIN db

\* C19: the stored last_msg of a key never decreases.
C19_LastAwardNeverDecreases ==
    [][\A k \in DOMAIN db : k \in DOMAIN db' /\ db'[k].last_msg >= db[k].last_msg]_vars

\* task t starts handling a room message in this step
StartsMessage(t) == Steps(t) /\ Free(t) /\ task'[t].kind = "message"

\* C20: a message without a body, or sent by the bot itself or by an ignored
\* account, changes no record, reads none, and is answered with nothing,
\* whatever the cooldown state.
C20_IgnoredMessage ==
    [][\A t \in Tasks :
          (StartsMessage(t) /\ (\/ ~task'[t].has_body
                                \/ task'[t].sender = ClientMxid
                                \/ task'[t].sender = Mxid(<<"k", "a", "r", "m", "a">>)))
              => /\ task'[t].pc = "done"
                 /\ task'[t].outcome = "ignored"
                 /\ task'[t].replies = <<>>
                 /\ task'[t].reads = 0
                 /\ task'[t].writes = 0
                 /\ db' = db]_vars

\* C20 witness: a message of an ignored account and a message without a body
\* were dropped while the user is outside the cooldown window of a stored record.
C20_Witness ==
    \E t1, t2 \in Tasks :
        /\ task[t1].outcome = "ignored" /\ task[t1].sender \in IGNORE_USERS
        /\ task[t2].outcome = "ignored" /\ task[t2].sender = Bob /\ ~task[t2].has_body
        /\ Bob \in DOMAIN db
        /\ clock - db[Bob].last_msg >= COOLDOWN

\* ----- read commands -----
\* what cmd_level and cmd_profile show of a user
ProfileReply(type, who, xp) ==
    [type |-> type, mxid |-> who, xp |-> xp, level |-> calc_level(xp),
     badge |-> get_badge(calc_level(xp))]

\* cmd_level: the sender's own row, then the reply
CmdLevel(t, sender) ==
    /\ Free(t)
    /\ LET mxid == normalize_user(sender)
           new == [IdleTask EXCEPT !.kind = "level", !.sender = sender, !.mxid = mxid,
                                   !.reads = 1]
           xp == RowXp(get_user_row(db, mxid))
       IN \/ task' = [task EXCEPT ![t] =
                 Finish(new, "shown", <<ProfileReply("level", sender, xp)>>)]
          \/ StorageFails /\ task' = [task EXCEPT ![t] = Finish(new, "failed", <<>>)]
    /\ UNCHANGED <<db, clock>>

\* cmd_profile: the row of the user named, of the sender when none is named
CmdProfile(t, sender, user) ==
    /\ Free(t)
    /\ LET target == IF user # <<>> THEN normalize_user(user) ELSE normalize_user(sender)
           new == [IdleTask EXCEPT !.kind = "profile", !.sender = sender,
                                   !.mxid = target, !.reads = 1]
           xp == RowXp(get_user_row(db, target))
       IN \/ task' = [task EXCEPT ![t] =
                 Finish(new, "shown", <<ProfileReply("profile", target, xp)>>)]
          \/ StorageFails /\ task' = [task EXCEPT ![t] = Finish(new, "failed", <<>>)]
    /\ UNCHANGED <<db, clock>>

\* cmd_leaderboard: LIMIT 10
LEADERBOARD_LIMIT == 10

\* the keys among `keys` with the highest xp
MaxXpKeys(table, keys) == {k \in keys : \A o \in keys : table[o].xp <= table[k].xp}

\* ORDER BY xp DESC LIMIT n: the statement names no second sort key, so rows of
\* equal xp come in whatever order the engine produces
RECURSIVE TopRows(_, _, _)
TopRows(table, keys, n) ==
    IF n = 0 \/ keys = {} THEN {<<>>}
    ELSE UNION {{<<k>> \o rest : rest \in TopRows(table, keys \ {k}, n - 1)} :
                  k \in MaxXpKeys(table, keys)}

\* one line of the leaderboard
LeaderboardLine(table, k) ==
    [user_id |-> k, xp |-> table[k].xp, level |-> calc_level(table[k].xp),
     badge |-> get_badge(calc_level(table[k].xp))]

\* cmd_leaderboard: admin gate, the SELECT, then the reply
CmdLeaderboard(t, sender) ==
    /\ Free(t)
    /\ LET new == [IdleTask EXCEPT !.kind = "leaderboard", !.sender = sender] IN
       IF ~is_admin_or_mod(sender)
       THEN task' = [task EXCEPT ![t] = Finish(new, "unauthorized", <<DeniedReply>>)]
       ELSE \/ \E top \in TopRows(db, DOMAIN db, LEADERBOARD_LIMIT) :
                 task' = [task EXCEPT ![t] =
                     Finish([new EXCEPT !.reads = 1],
                            IF top = <<>> THEN "nodata" ELSE "listed",
                            <<[type |-> IF top = <<>> THEN "nodata" ELSE "leaderboard",
                               rows |-> [i \in 1..Len(top) |-> LeaderboardLine(db, top[i])]]>>)]
            \/ StorageFails /\ task' = [task EXCEPT ![t] =
                   Finish([new EXCEPT !.reads = 1], "failed", <<>>)]
    /\ UNCHANGED <<db, clock>>

\* ----- two accounts -----
AdminMxid == Mxid(<<"a", "d", "m", "i", "n">>)

\* the accounts that write messages when two keys are followed
KeySenders == {Bob, AdminMxid}

\* the `xp` argument of setxp when two keys are followed
KeyXpArgs == {<<"9", "8">>, <<"a", "b", "c">>}

\* messages of two accounts, setxp on one of them
NextKeys ==
    \/ \E later \in Instants : Tick(later)
    \/ \E t \in Tasks, s \in KeySenders : OnMessage(t, s, TRUE)
    \/ \E t \in Tasks : MsgCheck(t)
    \/ \E t \in Tasks : MsgWrite(t)
    \/ \E t \in Tasks, s \in CmdSenders, x \in KeyXpArgs : CmdSetxp(t, s, <<"b">>, x)
    \/ \E t \in Tasks : SetxpWrite(t)
    \/ \E t \in Tasks : CmdProfile(t, Bob, <<"@", "z">>)

SpecKeys == Init /\ [][NextKeys]_vars

\* C13: a key enters the table only in the write step of an accepted award or
\* of an executed setxp for that key, and no key ever leaves the table.
C13_KeysOnlyGrow ==
    [][/\ DOMAIN db \subseteq DOMAIN db'
       /\ \A k \in DOMAIN db' \ DOMAIN db :
             \E t \in Tasks :
                 /\ Writes(t)
                 /\ task[t].mxid = k
                 /\ task'[t].outcome \in {"awarded", "set"}]_vars

\* C13 witness: both accounts have a record, after an award was rejected by the
\* cooldown and a setxp was refused.
C13_Witness ==
    /\ DOMAIN db = {Bob, AdminMxid}
    /\ \E t1, t2 \in Tasks :
          /\ task[t1].outcome = "cooldown"
          /\ task[t2].outcome \in {"unauthorized", "invalid"}

\* C17: a step of a handler for one key leaves every other key's record as it
\* is, and the row a handler fetches is the stored record of its own key,
\* whatever the other keys hold.
C17_DisjointKeysIndependent ==
    [][\A t \in Tasks :
          Steps(t) =>
              LET k == task'[t].mxid IN
              /\ \A o \in DOMAIN db \cup DOMAIN db' :
                    o # k => (o \in DOMAIN db /\ o \in DOMAIN db' /\ db'[o] = db[o])
              /\ (Free(t) /\ task'[t].pc \in {"msg_check", "setxp_write"})
                     => task'[t].row =
                            IF k \in DOMAIN db
                            THEN [present |-> TRUE, xp |-> db[k].xp,
                                  last_msg |-> db[k].last_msg]
                            ELSE [present |-> FALSE, xp |-> 0, last_msg |-> 0]]_vars

\* C17 witness: awards for two different accounts went through side by side
\* and left two different records.
C17_Witness ==
    \E t1, t2 \in Tasks :
        /\ Awarded(t1) /\ task[t1].mxid = Bob
        /\ Awarded(t2) /\ task[t2].mxid = AdminMxid
        /\ DOMAIN db = {Bob, AdminMxid}
        /\ db[Bob] # db[AdminMxid]

\* ----- the read commands over a table left by earlier writes -----
MaxLevel == 21
MaxUsers == 12

\* the i-th of a row of further accounts
UserN(i) == Mxid([j \in 1..i |-> "u"])

\* one user at each level from below zero up to MaxLevel, and at level 100
LevelTables ==
    {Bob :> [xp |-> l * XP_PER_LEVEL, last_msg |-> 0] : l \in (-1..MaxLevel) \cup {100}}

\* two users, with equal and with different xp
PairTables ==
    {(Bob :> [xp |-> 98, last_msg |-> 0]) @@ (AdminMxid :> [xp |-> x, last_msg |-> 0]) :
        x \in {98, 103}}

\* n users of pairwise different xp, around and beyond the leaderboard's limit
CrowdTables ==
    {[k \in {UserN(i) : i \in 1..n} |-> [xp |-> XP_PER_MESSAGE * Len(k), last_msg |-> 0]] :
        n \in 9..MaxUsers}

InitTables == {<<>>} \cup LevelTables \cup PairTables \cup CrowdTables

InitRead ==
    /\ db \in InitTables
    /\ clock = StartClock
    /\ task = [t \in Tasks |-> IdleTask]

\* the `user` argument of profile, as typed: none, a stored user, an unknown one
ProfileArgs == {<<>>, <<"b">>, <<"@", "z">>}

NextRead ==
    \/ \E t \in Tasks, s \in KeySenders : CmdLevel(t, s)
    \/ \E t \in Tasks, s \in KeySenders, u \in ProfileArgs : CmdProfile(t, s, u)
    \/ \E t \in Tasks, s \in CmdSenders : CmdLeaderboard(t, s)

SpecRead == InitRead /\ [][NextRead]_vars

\* task t handles a read command in this step
Reads(t) == Steps(t) /\ task'[t].kind \in {"level", "profile", "leaderboard"}

\* C11: the level, profile and leaderboard commands leave the table as it is;
\* for a key without a row level and profile show xp 0, level 0 and no badge
\* and create no row, for a key with a row they show its stored xp.
C11_ReadsDoNotMutate ==
    [][\A t \in Tasks :
          Reads(t) =>
              /\ db' = db
              /\ task'[t].writes = 0
              /\ (task'[t].kind # "leaderboard" /\ task'[t].outcome = "shown") =>
                     LET r == task'[t].replies[1]
                         k == task'[t].mxid
                     IN IF k \in DOMAIN db
                        THEN r.xp = db[k].xp
                        ELSE r.xp = 0 /\ r.level = 0 /\ r.badge = "" /\ k \notin DOMAIN db']_vars

\* C11 witness: the profile of an unknown user was shown as the zero default
\* and the key still has no row, next to the level of a stored user.
C11_Witness ==
    \E t1, t2 \in Tasks :
        /\ task[t1].kind = "profile" /\ task[t1].outcome = "shown"
        /\ task[t1].mxid \notin DOMAIN db
        /\ task[t1].replies[1].xp = 0
        /\ task[t2].kind = "level" /\ task[t2].outcome = "shown"
        /\ task[t2].mxid \in DOMAIN db
        /\ task[t2].replies[1].xp = db[task[t2].mxid].xp
        /\ task[t2].replies[1].xp > 0

Min(a, b) == IF a < b THEN a ELSE b

\* the leaderboards the tasks hold
Listed(t) == task[t].kind = "leaderboard" /\ task[t].outcome \in {"listed", "nodata"}

\* a leaderboard has as many rows as there are users, at most the limit, by
\* descending xp
WellFormedBoard(rows) ==
    /\ Len(rows) = Min(LEADERBOARD_LIMIT, Cardinality(DOMAIN db))
    /\ \A i \in 1..Len(rows) : rows[i].user_id \in DOMAIN db /\ rows[i].xp = db[rows[i].user_id].xp
    /\ \A i, j \in 1..Len(rows) : i < j => rows[i].xp >= rows[j].xp /\ rows[i].user_id # rows[j].user_id
    /\ \A k \in DOMAIN db :
          (\A i \in 1..Len(rows) : rows[i].user_id # k)
              => \A i \in 1..Len(rows) : rows[i].xp >= db[k].xp

\* C12: the leaderboard has min(limit, number of users) rows by descending xp,
\* and two leaderboards taken with no write in between are the same sequence.
\* (No step of SpecRead writes.)
C12_LeaderboardStable ==
    /\ \A t \in Tasks : Listed(t) => WellFormedBoard(task[t].replies[1].rows)
    /\ \A t1, t2 \in Tasks :
          (Listed(t1) /\ Listed(t2)) => task[t1].replies[1].rows = task[t2].replies[1].rows

\* the part of C12 about size and order alone
LeaderboardWellFormed ==
    \A t \in Tasks : Listed(t) => WellFormedBoard(task[t].replies[1].rows)

\* the milestone table
MilestoneLabel(m) ==
    CASE m = 1 -> "Bronze" [] m = 5 -> "Silver" [] m = 10 -> "Gold" [] m = 20 -> "Platinum"

\* the label of the highest milestone <= level, empty below the lowest
HighestMilestoneLabel(level) ==
    LET at_or_below == {m \in {1, 5, 10, 20} : m <= level} IN
    IF at_or_below = {} THEN ""
    ELSE MilestoneLabel(CHOOSE m \in at_or_below : \A o \in at_or_below : o <= m)

\* the (level, badge) pairs task t has shown
Shown(t) ==
    IF task[t].kind \in {"level", "profile"} /\ task[t].outcome = "shown"
    THEN {task[t].replies[1]}
    ELSE IF task[t].kind = "leaderboard" /\ task[t].outcome = "listed"
    THEN {task[t].replies[1].rows[i] : i \in 1..Len(task[t].replies[1].rows)}
    ELSE {}

\* C14: the badge shown with a level is the label of the highest milestone of
\* {1, 5, 10, 20} that is <= the level, and empty below 1.
C14_BadgeOfLevel ==
    \A t \in Tasks : \A r \in Shown(t) : r.badge = HighestMilestoneLabel(r.level)

\* C14 witness: level 100 was shown as Platinum and level 0 with no badge.
C14_Witness ==
    \E t1, t2 \in Tasks :
        /\ \E r \in Shown(t1) : r.level = 100 /\ r.badge = "Platinum"
        /\ \E r \in Shown(t2) : r.level = 0 /\ r.badge = ""

\* ----- normalize_user on raw text -----
\* identifiers as typed: empty, blank, the four forms, padded forms
RawNames ==
    { <<>>, <<" ">>, <<" ", " ">>, <<"\t">>,
      <<"@", "b", ":", "x">>, <<"@", "b">>, <<"b">>, <<"b", ":", "x">>,
      <<" ", "b">>, <<"b", " ">>, <<" ", "@", "b", " ">>, <<"@", "b", ":", "x", " ">>,
      <<" ", "b", ":", "x">>, <<"@">>, <<":">> }

\* a call normalize_user(raw): the task keeps the argument and the result
Normalize(t, raw) ==
    /\ Free(t)
    /\ task' = [task EXCEPT ![t] =
           Finish([IdleTask EXCEPT !.kind = "normalize", !.raw = raw,
                                   !.mxid = normalize_user(raw)], "returned", <<>>)]
    /\ UNCHANGED <<db, clock>>

NextNorm == \E t \in Tasks, raw \in RawNames : Normalize(t, raw)

SpecNorm == Init /\ [][NextNorm]_vars

Normalized(t) == task[t].kind = "normalize" /\ task[t].outcome = "returned"

IsBlank(s) == \A i \in 1..Len(s) : s[i] \in {" ", "\t"}

\* C15: normalize returns the empty string for every empty or blank input.
C15_BlankNormalizesToEmpty ==
    \A t \in Tasks : (Normalized(t) /\ IsBlank(task[t].raw)) => task[t].mxid = <<>>

\* the four forms, read on the text s
FourForms(s) ==
    IF s[1] = "@" /\ (\E i \in 1..Len(s) : s[i] = ":") THEN s
    ELSE IF s[1] = "@" THEN s \o DefaultDomain
    ELSE IF ~(\E i \in 1..Len(s) : s[i] = ":") THEN <<"@">> \o s \o DefaultDomain
    ELSE s

\* s without its leading and trailing whitespace (s not blank)
Trimmed(s) ==
    LET first == CHOOSE i \in 1..Len(s) :
                     s[i] \notin {" ", "\t"} /\ \A j \in 1..(i - 1) : s[j] \in {" ", "\t"}
        last == CHOOSE i \in 1..Len(s) :
                     s[i] \notin {" ", "\t"} /\ \A j \in (i + 1)..Len(s) : s[j] \in {" ", "\t"}
    IN [i \in 1..(last - first + 1) |-> s[first + i - 1]]

\* C16 as stated: for non-blank input normalize returns '@name:domain'
\* unchanged, appends the default domain to '@name', adds sigil and default
\* domain to a bare name without ':', and returns a sigil-less name with ':'
\* unchanged.
C16_FourFormsOfInput ==
    \A t \in Tasks :
        (Normalized(t) /\ ~IsBlank(task[t].raw)) => task[t].mxid = FourForms(task[t].raw)

\* C16 amended: for non-blank input normalize first removes leading and
\* trailing whitespace, and the four forms hold of the remaining text.
C16_FourFormsOfTrimmed ==
    \A t \in Tasks :
        (Normalized(t) /\ ~IsBlank(task[t].raw))
            => task[t].mxid = FourForms(Trimmed(task[t].raw))

\* C16 witness: a padded '@name' came back with the default domain and a
\* sigil-less name with ':' came back unchanged.
C16_Witness ==
    \E t1, t2 \in Tasks :
        /\ Normalized(t1) /\ task[t1].raw = <<" ", "@", "b", " ">>
        /\ task[t1].mxid = <<"@", "b">> \o DefaultDomain
        /\ Normalized(t2) /\ task[t2].raw = <<"b", ":", "x">>
        /\ task[t2].mxid = <<"b", ":", "x">>
====
